---- MODULE Spec2Model ----
(***************************************************************************)
(* A model of components/button/button.tsx: the colour/variant resolver,   *)
(* the delayed-loading automaton (useState + useLayoutEffect + setTimeout)  *)
(* the click gate, the two-character check and the render decisions of one *)
(* Button instance.                                                        *)
(*                                                                         *)
(* An update cycle of the component is two steps: the render (Mount or     *)
(* SetProps), which reads the committed state, and the commit (Commit),    *)
(* which runs the layout effect and the synchronous re-render its          *)
(* setLoading causes, and then the passive effect (Effects) with the        *)
(* re-render its setHasTwoCNChar causes.  Browser events (a click, a timer  *)
(* callback, the passing of time) and the parent's updates happen only     *)
(* between cycles.                                                         *)
(***************************************************************************)
EXTENDS Integers, Sequences, FiniteSets

\* ------------------------------------------------------------------ bounds
\* the largest delay (in clock ticks) a loading object carries
MaxDelay == 2
\* how many timers setTimeout hands out in one run
MaxTimers == 3

\* ------------------------------------------------------- values of the props
Undefined == "undefined"

\* the value of delayTimer when it holds no timer (null)
NoTimer == 0

\* BaseButtonProps.type, plus a string that is no key of ButtonTypeMap
ButtonTypes == {"default", "primary", "dashed", "link", "text"}
TypeInputs == ButtonTypes \cup {Undefined, "unknown"}

\* BaseButtonProps.color / BaseButtonProps.variant
ColorInputs == {Undefined, "default", "primary", "danger", "blue"}
VariantInputs == {Undefined, "outlined", "dashed", "solid", "filled", "text", "link"}

\* ConfigContext.button: absent, or an object whose color / variant may be absent
ButtonContexts ==
  {[present |-> FALSE, color |-> Undefined, variant |-> Undefined]}
  \cup [present : {TRUE}, color : ColorInputs, variant : VariantInputs]

\* the resolver's inputs: color, variant, type, danger of the props
RawConfigs ==
  [color : ColorInputs, variant : VariantInputs, type : TypeInputs, danger : BOOLEAN]

\* BaseButtonProps.loading.delay: absent, NaN, or a number
DelayInputs ==
  {[t |-> "undefined", n |-> 0], [t |-> "NaN", n |-> 0]}
  \cup [t : {"number"}, n : -1 .. MaxDelay]

\* BaseButtonProps.loading: absent, a boolean, or an object with a delay and,
\* when icon is TRUE, a custom loading icon
LoadingInputs ==
  {[kind |-> "undefined", val |-> FALSE, delay |-> [t |-> "undefined", n |-> 0],
    icon |-> FALSE]}
  \cup [kind : {"boolean"}, val : BOOLEAN, delay : {[t |-> "undefined", n |-> 0]},
        icon : {FALSE}]
  \cup [kind : {"object"}, val : {FALSE}, delay : DelayInputs, icon : BOOLEAN]

\* BaseButtonProps.disabled: << >> is undefined, <<b>> is the boolean b
DisabledInputs == {<< >>, <<TRUE>>, <<FALSE>>}

\* ButtonProps.href: << >> is undefined
HrefInputs == {<< >>, <<"/x">>}

\* BaseButtonProps.children: nothing, the number 0, one string of two or three
\* CJK characters or of other characters, or two children of one CJK character
ChildrenInputs == {"none", "zero", "twoCN", "threeCN", "latin", "pairCN"}

\* ButtonProps.autoInsertSpace and the context's autoInsertSpace
InsertSpaceInputs == {<< >>, <<TRUE>>, <<FALSE>>}

\* the props the loading automaton and the click gate read; the others are at
\* one value
PropsInputs ==
  [loading : LoadingInputs, disabled : DisabledInputs, onClick : BOOLEAN,
   href : {<< >>}, icon : {FALSE}, children : {"latin"}, autoInsertSpace : {<< >>}]

\* the click events delivered to the element
Events == {"e1", "e2"}

\* ------------------------------------------------------------------- state
VARIABLES
  mounted,       \* the instance is in the tree
  pc,            \* "idle": settled; "commit": rendered, layout effect pending
  props,         \* the props of the last render
  ctxDisabled,   \* the value of DisabledContext at the last render
  cfg,           \* color, variant, type, danger of the props
  button,        \* ConfigContext.button
  merged,        \* [mergedColor, mergedVariant] of the last render, << >> before it
  ctxInsertSpace, \* the context's autoInsertSpace at the last render
  innerLoading,  \* the useState flag
  hasTwoCNChar,  \* the useState flag of the two-character check
  deps,          \* the dependency list the layout effect last ran with, << >> if none
  delayTimer,    \* the delayTimer variable of the effect whose cleanup React holds
  timers,        \* the browser's pending timers: [id, remaining]
  nextTimerId,   \* the id the next setTimeout returns
  last           \* the last operation and the calls it made to its collaborators

vars == <<mounted, pc, props, ctxDisabled, ctxInsertSpace, cfg, button, merged,
          innerLoading, hasTwoCNChar, deps, delayTimer, timers, nextTimerId, last>>

\* ---------------------------------------------------------------- resolver
\* ButtonTypeMap[type] || []
ButtonTypeMap(type) ==
  CASE type = "default" -> <<"default", "outlined">>
    [] type = "primary" -> <<"primary", "solid">>
    [] type = "dashed"  -> <<"default", "dashed">>
    [] type = "link"    -> <<"link", "link">>
    [] type = "text"    -> <<"default", "text">>
    [] OTHER            -> <<Undefined, Undefined>>

\* const mergedType = type || 'default'
mergedType(type) == IF type = Undefined THEN "default" ELSE type

\* the sugar branch taken after the local pair, not before it
MergedColorVariant_SugarFirst(c, b) ==
  IF c.type # Undefined \/ c.danger
    THEN IF c.danger
           THEN <<"danger", ButtonTypeMap(mergedType(c.type))[2]>>
           ELSE ButtonTypeMap(mergedType(c.type))
    ELSE IF c.color # Undefined /\ c.variant # Undefined
      THEN <<c.color, c.variant>>
      ELSE IF b.present /\ b.color # Undefined /\ b.variant # Undefined
        THEN <<b.color, b.variant>>
        ELSE <<"default", "outlined">>

\* the sugar branch reading the context's pair where the table has the type
MergedColorVariant_ContextFirst(c, b) ==
  IF c.color # Undefined /\ c.variant # Undefined
    THEN <<c.color, c.variant>>
    ELSE IF b.present /\ b.color # Undefined /\ b.variant # Undefined
      THEN <<b.color, b.variant>>
      ELSE IF c.type # Undefined \/ c.danger
        THEN IF c.danger
               THEN <<"danger", ButtonTypeMap(mergedType(c.type))[2]>>
               ELSE ButtonTypeMap(mergedType(c.type))
        ELSE <<"default", "outlined">>

\* danger keeping a variant the props supply alone
MergedColorVariant_DangerKeepsVariant(c, b) ==
  IF c.color # Undefined /\ c.variant # Undefined
    THEN <<c.color, c.variant>>
    ELSE IF c.type # Undefined \/ c.danger
      THEN IF c.danger
             THEN <<"danger", IF c.variant # Undefined
                                THEN c.variant
                                ELSE ButtonTypeMap(mergedType(c.type))[2]>>
             ELSE ButtonTypeMap(mergedType(c.type))
      ELSE IF b.present /\ b.color # Undefined /\ b.variant # Undefined
        THEN <<b.color, b.variant>>
        ELSE <<"default", "outlined">>

\* the context fallback taken when the context supplies either of the two
MergedColorVariant_ContextEither(c, b) ==
  IF c.color # Undefined /\ c.variant # Undefined
    THEN <<c.color, c.variant>>
    ELSE IF c.type # Undefined \/ c.danger
      THEN IF c.danger
             THEN <<"danger", ButtonTypeMap(mergedType(c.type))[2]>>
             ELSE ButtonTypeMap(mergedType(c.type))
      ELSE IF b.present /\ (b.color # Undefined \/ b.variant # Undefined)
        THEN <<b.color, b.variant>>
        ELSE <<"default", "outlined">>

\* the useMemo that yields [mergedColor, mergedVariant]
MergedColorVariant(c, b) ==
  IF c.color # Undefined /\ c.variant # Undefined
    THEN <<c.color, c.variant>>
    ELSE IF c.type # Undefined \/ c.danger
      THEN IF c.danger
             THEN <<"danger", ButtonTypeMap(mergedType(c.type))[2]>>
             ELSE ButtonTypeMap(mergedType(c.type))
      ELSE IF b.present /\ b.color # Undefined /\ b.variant # Undefined
        THEN <<b.color, b.variant>>
        ELSE <<"default", "outlined">>

\* ----------------------------------------------------------------- loading
\* getLoadingConfig(loading): the normalized {loading, delay}
getLoadingConfig(loading) ==
  IF loading.kind = "object"
    THEN LET delay == IF loading.delay.t = "number" THEN loading.delay.n ELSE 0
         IN  [loading |-> delay <= 0, delay |-> delay]
    ELSE [loading |-> (loading.kind = "boolean" /\ loading.val), delay |-> 0]

\* const mergedDisabled = customDisabled ?? disabled
mergedDisabled(customDisabled, disabled) ==
  IF customDisabled = << >> THEN disabled ELSE customDisabled[1]

\* clearTimeout(id) on the pending timers ts
ClearTimeout(ts, id) == {t \in ts : t.id # id}

\* a cleanup that clears the timer and keeps its id in delayTimer
cleanupTimer_KeepsId(ts, dt) ==
  IF dt # NoTimer
    THEN [timers |-> ClearTimeout(ts, dt), delayTimer |-> dt, cleared |-> dt]
    ELSE [timers |-> ts, delayTimer |-> dt, cleared |-> NoTimer]

\* a cleanup that forgets the timer without clearing it
cleanupTimer_NoClear(ts, dt) ==
  [timers |-> ts, delayTimer |-> NoTimer, cleared |-> NoTimer]

\* cleanupTimer() of the effect whose delayTimer is dt
cleanupTimer(ts, dt) ==
  IF dt # NoTimer
    THEN [timers |-> ClearTimeout(ts, dt), delayTimer |-> NoTimer, cleared |-> dt]
    ELSE [timers |-> ts, delayTimer |-> dt, cleared |-> NoTimer]

\* an effect that can raise the flag and never lowers it
loadingEffect_OnlyActivates(c, ts, inner, nextId) ==
  IF c.delay > 0
    THEN [timers |-> ts \cup {[id |-> nextId, remaining |-> c.delay]},
          delayTimer |-> nextId, innerLoading |-> inner, nextTimerId |-> nextId + 1]
    ELSE [timers |-> ts, delayTimer |-> NoTimer, innerLoading |-> (inner \/ c.loading),
          nextTimerId |-> nextId]

\* an effect that sets the flag only from its timer
loadingEffect_NoImmediate(c, ts, inner, nextId) ==
  IF c.delay > 0
    THEN [timers |-> ts \cup {[id |-> nextId, remaining |-> c.delay]},
          delayTimer |-> nextId, innerLoading |-> inner, nextTimerId |-> nextId + 1]
    ELSE [timers |-> ts, delayTimer |-> NoTimer, innerLoading |-> inner,
          nextTimerId |-> nextId]

\* the body of the layout effect, run with the normalized config c
loadingEffect(c, ts, inner, nextId) ==
  IF c.delay > 0
    THEN [timers |-> ts \cup {[id |-> nextId, remaining |-> c.delay]},
          delayTimer |-> nextId, innerLoading |-> inner, nextTimerId |-> nextId + 1]
    ELSE [timers |-> ts, delayTimer |-> NoTimer, innerLoading |-> c.loading,
          nextTimerId |-> nextId]

\* a gate that looks at the loading flag alone
handleClick_LoadingOnly(e, inner, dis, onClick) ==
  IF inner
    THEN [prevented |-> TRUE, handlerArgs |-> << >>]
    ELSE [prevented |-> FALSE, handlerArgs |-> IF onClick THEN <<e>> ELSE << >>]

\* handleClick(e): whether it calls e.preventDefault(), and what it hands to onClick
handleClick(e, inner, dis, onClick) ==
  IF inner \/ dis
    THEN [prevented |-> TRUE, handlerArgs |-> << >>]
    ELSE [prevented |-> FALSE, handlerArgs |-> IF onClick THEN <<e>> ELSE << >>]

\* ------------------------------------------------------------------ render
\* isUnBorderedButtonVariant of buttonHelpers: the link / text family
isUnBorderedButtonVariant(variant) == variant \in {"text", "link"}

\* Children.count(children)
ChildrenCount(ch) ==
  CASE ch = "none" -> 0 [] ch = "pairCN" -> 2 [] OTHER -> 1

\* !children: undefined and the number 0 are falsy
ChildrenFalsy(ch) == ch \in {"none", "zero"}

\* the characters the children render: "C" is a CJK ideograph, "x" any other
ChildrenText(ch) ==
  CASE ch = "none"    -> << >>
    [] ch = "zero"    -> <<"x">>
    [] ch = "twoCN"   -> <<"C", "C">>
    [] ch = "threeCN" -> <<"C", "C", "C">>
    [] ch = "latin"   -> <<"x", "x">>
    [] ch = "pairCN"  -> <<"C", "C">>

\* buttonRef.current.textContent || '': the text of the rendered children (the
\* icon nodes carry no text)
textContent(ch) == ChildrenText(ch)

\* isTwoCNChar of buttonHelpers: exactly two characters, both CJK ideographs
isTwoCNChar(text) == Len(text) = 2 /\ \A i \in 1 .. Len(text) : text[i] = "C"

\* const needInserted = Children.count(children) === 1 && !icon && !isUnBordered...
needInserted(ch, icon, variant) ==
  ChildrenCount(ch) = 1 /\ ~icon /\ ~isUnBorderedButtonVariant(variant)

\* const mergedInsertSpace = autoInsertSpace ?? contextAutoInsertSpace ?? true
mergedInsertSpace(autoInsertSpace, contextAutoInsertSpace) ==
  IF autoInsertSpace # << >> THEN autoInsertSpace[1]
  ELSE IF contextAutoInsertSpace # << >> THEN contextAutoInsertSpace[1]
  ELSE TRUE

\* a check that sets the flag and never clears it
twoCNEffect_NeverClears(has, need, insertSpace, text) ==
  IF ~insertSpace THEN has
  ELSE IF need /\ isTwoCNChar(text) THEN TRUE ELSE has

\* the useEffect of the two-character check: the value of hasTwoCNChar after it
twoCNEffect(has, need, insertSpace, text) ==
  IF ~insertSpace THEN has
  ELSE IF need /\ isTwoCNChar(text) THEN TRUE
  ELSE IF has THEN FALSE ELSE has

\* the class two-chinese-chars
twoChineseChars(has, insertSpace, inner) == has /\ insertSpace /\ ~inner

\* an icon-only test that takes the number 0 for no children
iconOnly_ZeroIsAbsent(ch, icon, inner) == ChildrenFalsy(ch) /\ (inner \/ icon)

\* the class icon-only: !children && children !== 0 && !!iconType, where
\* iconType = innerLoading ? 'loading' : icon
iconOnly(ch, icon, inner) == ChildrenFalsy(ch) /\ ch # "zero" /\ (inner \/ icon)

\* iconNode: the user's icon, the custom loading icon, or DefaultLoadingIcon
iconNode(icon, inner, loading) ==
  IF icon /\ ~inner THEN "icon"
  ELSE IF loading.kind = "object" /\ loading.icon THEN "loading.icon"
  ELSE "DefaultLoadingIcon"

\* a link that keeps its place in the tab order when disabled
linkButton_KeepsTabIndex(href, dis) ==
  [tag |-> "a", href |-> IF dis THEN << >> ELSE href, tabIndex |-> <<0>>,
   ariaDisabled |-> <<dis>>, disabled |-> << >>, wave |-> FALSE,
   waveDisabled |-> FALSE]

\* the <a> returned when href is not undefined
linkButton(href, dis) ==
  [tag |-> "a", href |-> IF dis THEN << >> ELSE href,
   tabIndex |-> <<IF dis THEN -1 ELSE 0>>, ariaDisabled |-> <<dis>>,
   disabled |-> << >>, wave |-> FALSE, waveDisabled |-> FALSE]

\* a button wrapped in Wave whatever its variant
buttonNode_AlwaysWave(dis, variant, inner) ==
  [tag |-> "button", href |-> << >>, tabIndex |-> << >>, ariaDisabled |-> << >>,
   disabled |-> <<dis>>, wave |-> TRUE, waveDisabled |-> inner]

\* the <button>, wrapped in <Wave disabled={innerLoading}> unless unbordered
buttonNode(dis, variant, inner) ==
  [tag |-> "button", href |-> << >>, tabIndex |-> << >>, ariaDisabled |-> << >>,
   disabled |-> <<dis>>, wave |-> ~isUnBorderedButtonVariant(variant),
   waveDisabled |-> (~isUnBorderedButtonVariant(variant) /\ inner)]

\* the element the component returns
element(href, dis, variant, inner) ==
  IF href # << >> THEN linkButton(href, dis) ELSE buttonNode(dis, variant, inner)

\* ----------------------------------------------------------------- records
NoOp == [op |-> "none", event |-> "", prevented |-> FALSE, handlerArgs |-> << >>,
         cleared |-> NoTimer, scheduled |-> NoTimer, fired |-> NoTimer]

DefaultProps ==
  [loading |-> [kind |-> "undefined", val |-> FALSE,
                delay |-> [t |-> "undefined", n |-> 0], icon |-> FALSE],
   disabled |-> << >>, onClick |-> FALSE, href |-> << >>, icon |-> FALSE,
   children |-> "latin", autoInsertSpace |-> << >>]
DefaultCfg ==
  [color |-> Undefined, variant |-> Undefined, type |-> Undefined, danger |-> FALSE]
NoButtonContext == [present |-> FALSE, color |-> Undefined, variant |-> Undefined]

\* the setTimeout budget: a render whose effect may schedule needs an id left
CanSchedule(p) == getLoadingConfig(p.loading).delay > 0 => nextTimerId <= MaxTimers

\* what the last render returned, from the props and the state it read
renderedElement ==
  element(props.href, mergedDisabled(props.disabled, ctxDisabled), merged[2],
          innerLoading)

renderedIcon == iconNode(props.icon, innerLoading, props.loading)

renderedIconOnly == iconOnly(props.children, props.icon, innerLoading)

renderedTwoChineseChars ==
  twoChineseChars(hasTwoCNChar,
                  mergedInsertSpace(props.autoInsertSpace, ctxInsertSpace),
                  innerLoading)

\* ----------------------------------------------------------------- actions
\* what a render receives: the props and the values of the contexts it reads
SpecInputs ==
  [props : PropsInputs, cfg : {DefaultCfg}, button : {NoButtonContext},
   ctxDisabled : BOOLEAN, ctxInsertSpace : {<< >>}]

Init ==
  /\ mounted = FALSE
  /\ pc = "idle"
  /\ props = DefaultProps
  /\ ctxDisabled = FALSE
  /\ ctxInsertSpace = << >>
  /\ cfg = DefaultCfg
  /\ button = NoButtonContext
  /\ merged = << >>
  /\ innerLoading = FALSE
  /\ hasTwoCNChar = FALSE
  /\ deps = << >>
  /\ delayTimer = NoTimer
  /\ timers = {}
  /\ nextTimerId = 1
  /\ last = NoOp

\* the first render with an input of I: useState(loadingOrDelay.loading),
\* useState(false), the effects pending
MountWith(I) ==
  /\ ~mounted /\ pc = "idle"
  /\ \E i \in I :
       /\ CanSchedule(i.props)
       /\ props' = i.props
       /\ ctxDisabled' = i.ctxDisabled
       /\ ctxInsertSpace' = i.ctxInsertSpace
       /\ cfg' = i.cfg
       /\ button' = i.button
       /\ merged' = MergedColorVariant(i.cfg, i.button)
       /\ innerLoading' = getLoadingConfig(i.props.loading).loading
  /\ hasTwoCNChar' = FALSE
  /\ mounted' = TRUE
  /\ pc' = "commit"
  /\ last' = [NoOp EXCEPT !.op = "Mount"]
  /\ UNCHANGED <<deps, delayTimer, timers, nextTimerId>>

\* a render with an input of I: new props or new context values; the state is
\* as committed
SetPropsWith(I) ==
  /\ mounted /\ pc = "idle"
  /\ \E i \in I :
       /\ CanSchedule(i.props)
       /\ props' = i.props
       /\ ctxDisabled' = i.ctxDisabled
       /\ ctxInsertSpace' = i.ctxInsertSpace
       /\ cfg' = i.cfg
       /\ button' = i.button
       /\ merged' = MergedColorVariant(i.cfg, i.button)
  /\ pc' = "commit"
  /\ last' = [NoOp EXCEPT !.op = "SetProps"]
  /\ UNCHANGED <<mounted, innerLoading, hasTwoCNChar, deps, delayTimer, timers,
                 nextTimerId>>

Mount == MountWith(SpecInputs)

SetProps == SetPropsWith(SpecInputs)

\* a commit whose layout effect has no dependency list
Commit_NoDeps ==
  /\ mounted /\ pc = "commit"
  /\ LET c == getLoadingConfig(props.loading)
         cl == IF deps = << >>
                 THEN [timers |-> timers, delayTimer |-> delayTimer, cleared |-> NoTimer]
                 ELSE cleanupTimer(timers, delayTimer)
         ef == loadingEffect(c, cl.timers, innerLoading, nextTimerId)
     IN  /\ nextTimerId <= MaxTimers \/ c.delay <= 0
         /\ timers' = ef.timers
         /\ delayTimer' = ef.delayTimer
         /\ innerLoading' = ef.innerLoading
         /\ nextTimerId' = ef.nextTimerId
         /\ deps' = <<c>>
         /\ last' = [NoOp EXCEPT !.op = "Commit", !.cleared = cl.cleared,
                                 !.scheduled = ef.delayTimer]
  /\ pc' = "effects"
  /\ UNCHANGED <<mounted, props, ctxDisabled, ctxInsertSpace, cfg, button, merged,
                 hasTwoCNChar>>

\* the commit: when [delay, loading] changed, the previous effect's cleanup and
\* then the effect; the re-render after its setLoading is part of the commit
Commit ==
  /\ mounted /\ pc = "commit"
  /\ LET c == getLoadingConfig(props.loading)
         changed == deps = << >> \/ deps[1] # c
         cl == IF deps = << >>
                 THEN [timers |-> timers, delayTimer |-> delayTimer, cleared |-> NoTimer]
                 ELSE cleanupTimer(timers, delayTimer)
         ef == loadingEffect(c, cl.timers, innerLoading, nextTimerId)
     IN  IF changed
           THEN /\ timers' = ef.timers
                /\ delayTimer' = ef.delayTimer
                /\ innerLoading' = ef.innerLoading
                /\ nextTimerId' = ef.nextTimerId
                /\ deps' = <<c>>
                /\ last' = [NoOp EXCEPT !.op = "Commit", !.cleared = cl.cleared,
                                        !.scheduled = ef.delayTimer]
           ELSE /\ UNCHANGED <<timers, delayTimer, innerLoading, nextTimerId, deps>>
                /\ last' = [NoOp EXCEPT !.op = "Commit"]
  /\ pc' = "effects"
  /\ UNCHANGED <<mounted, props, ctxDisabled, ctxInsertSpace, cfg, button, merged,
                 hasTwoCNChar>>

\* the passive effect of the two-character check on the committed text, and the
\* re-render after its setHasTwoCNChar (whose own check changes nothing more)
Effects ==
  /\ mounted /\ pc = "effects"
  /\ hasTwoCNChar' =
       twoCNEffect(hasTwoCNChar,
                   needInserted(props.children, props.icon, merged[2]),
                   mergedInsertSpace(props.autoInsertSpace, ctxInsertSpace),
                   textContent(props.children))
  /\ pc' = "idle"
  /\ UNCHANGED <<mounted, props, ctxDisabled, ctxInsertSpace, cfg, button, merged,
                 innerLoading, deps, delayTimer, timers, nextTimerId, last>>

\* one tick of the clock: every timer that is not yet due comes one tick closer
Tick ==
  /\ pc = "idle"
  /\ \E t \in timers : t.remaining > 0
  /\ timers' = {[t EXCEPT !.remaining = IF @ > 0 THEN @ - 1 ELSE 0] : t \in timers}
  /\ last' = [NoOp EXCEPT !.op = "Tick"]
  /\ UNCHANGED <<mounted, pc, props, ctxDisabled, ctxInsertSpace, cfg, button, merged,
                 innerLoading, hasTwoCNChar, deps, delayTimer, nextTimerId>>

\* a due timer's callback: delayTimer = null; setLoading(true), and the re-render
\* with its passive effect.  React drops a setState on an instance that is no
\* longer mounted.
Fire ==
  /\ pc = "idle"
  /\ \E t \in timers :
       /\ t.remaining = 0
       /\ timers' = timers \ {t}
       /\ delayTimer' = IF delayTimer = t.id THEN NoTimer ELSE delayTimer
       /\ last' = [NoOp EXCEPT !.op = "Fire", !.fired = t.id]
  /\ innerLoading' = IF mounted THEN TRUE ELSE innerLoading
  /\ hasTwoCNChar' =
       IF mounted
         THEN twoCNEffect(hasTwoCNChar,
                          needInserted(props.children, props.icon, merged[2]),
                          mergedInsertSpace(props.autoInsertSpace, ctxInsertSpace),
                          textContent(props.children))
         ELSE hasTwoCNChar
  /\ UNCHANGED <<mounted, pc, props, ctxDisabled, ctxInsertSpace, cfg, button, merged,
                 deps, nextTimerId>>

\* a click on the rendered element: handleClick of the last render
Click ==
  /\ mounted /\ pc = "idle"
  /\ \E e \in Events :
       LET r == handleClick(e, innerLoading,
                            mergedDisabled(props.disabled, ctxDisabled), props.onClick)
       IN  last' = [NoOp EXCEPT !.op = "Click", !.event = e,
                                !.prevented = r.prevented,
                                !.handlerArgs = r.handlerArgs]
  /\ UNCHANGED <<mounted, pc, props, ctxDisabled, ctxInsertSpace, cfg, button, merged,
                 innerLoading, hasTwoCNChar, deps, delayTimer, timers, nextTimerId>>

\* an unmount that runs no cleanup
Unmount_NoCleanup ==
  /\ mounted /\ pc = "idle"
  /\ mounted' = FALSE
  /\ deps' = << >>
  /\ last' = [NoOp EXCEPT !.op = "Unmount"]
  /\ UNCHANGED <<pc, props, ctxDisabled, ctxInsertSpace, cfg, button, merged,
                 innerLoading, hasTwoCNChar, timers, delayTimer, nextTimerId>>

\* the instance leaves the tree: React runs the layout effect's cleanup
Unmount ==
  /\ mounted /\ pc = "idle"
  /\ LET cl == cleanupTimer(timers, delayTimer)
     IN  /\ timers' = cl.timers
         /\ delayTimer' = cl.delayTimer
         /\ last' = [NoOp EXCEPT !.op = "Unmount", !.cleared = cl.cleared]
  /\ mounted' = FALSE
  /\ deps' = << >>
  /\ UNCHANGED <<pc, props, ctxDisabled, ctxInsertSpace, cfg, button, merged,
                 innerLoading, hasTwoCNChar, nextTimerId>>

Next == Mount \/ SetProps \/ Commit \/ Effects \/ Tick \/ Fire \/ Click \/ Unmount

Spec == Init /\ [][Next]_vars

\* a commit, once begun, completes with its effects; the clock advances and the
\* event loop runs a due timer however often the parent re-renders in between
\* (each render is one finite task of the event loop, so it only interrupts Tick
\* and Fire)
FairSpec ==
  Spec /\ WF_vars(Commit) /\ WF_vars(Effects) /\ SF_vars(Tick) /\ SF_vars(Fire)

\* ------------------------------------------------- the resolver on its own
\* every combination of color, variant, type, danger and ConfigContext.button
ResolveInit ==
  /\ cfg \in RawConfigs
  /\ button \in ButtonContexts
  /\ merged = << >>
  /\ mounted = FALSE
  /\ pc = "idle"
  /\ props = DefaultProps
  /\ ctxDisabled = FALSE
  /\ ctxInsertSpace = << >>
  /\ innerLoading = FALSE
  /\ hasTwoCNChar = FALSE
  /\ deps = << >>
  /\ delayTimer = NoTimer
  /\ timers = {}
  /\ nextTimerId = 1
  /\ last = NoOp

\* the render's useMemo on those inputs
Resolve ==
  /\ merged = << >>
  /\ merged' = MergedColorVariant(cfg, button)
  /\ UNCHANGED <<mounted, pc, props, ctxDisabled, ctxInsertSpace, cfg, button,
                 innerLoading, hasTwoCNChar, deps, delayTimer, timers, nextTimerId,
                 last>>

ResolveNext == Resolve

ResolveSpec == ResolveInit /\ [][ResolveNext]_vars

\* ------------------------------------------- the render decisions of a mount
\* the configurations of type that give a bordered and the two unbordered variants
RenderCfgs ==
  [color : {Undefined}, variant : {Undefined}, type : {Undefined, "text", "link"},
   danger : {FALSE}]

\* every combination of the props a render decision reads
RenderInputs ==
  [props : [loading : LoadingInputs, disabled : DisabledInputs, onClick : BOOLEAN,
            href : HrefInputs, icon : BOOLEAN, children : ChildrenInputs,
            autoInsertSpace : {<< >>}],
   cfg : RenderCfgs, button : {NoButtonContext}, ctxDisabled : BOOLEAN,
   ctxInsertSpace : {<< >>}]

\* an instance about to be mounted with any of those inputs
RenderInit ==
  /\ \E i \in RenderInputs :
       /\ props = i.props
       /\ cfg = i.cfg
       /\ button = i.button
       /\ ctxDisabled = i.ctxDisabled
       /\ ctxInsertSpace = i.ctxInsertSpace
  /\ mounted = FALSE
  /\ pc = "idle"
  /\ merged = << >>
  /\ innerLoading = FALSE
  /\ hasTwoCNChar = FALSE
  /\ deps = << >>
  /\ delayTimer = NoTimer
  /\ timers = {}
  /\ nextTimerId = 1
  /\ last = NoOp

\* the mount with the input the instance was given
RenderMount ==
  MountWith({[props |-> props, cfg |-> cfg, button |-> button,
              ctxDisabled |-> ctxDisabled, ctxInsertSpace |-> ctxInsertSpace]})

RenderNext == RenderMount \/ Commit \/ Effects \/ Tick \/ Fire \/ Click

RenderSpec == RenderInit /\ [][RenderNext]_vars

\* ------------------------------------------------ the two-character check
\* the inputs the check reads, with the loading inputs false, true and {delay: 1}
SpaceInputs ==
  [props : [loading : {l \in LoadingInputs :
                         /\ ~l.icon
                         /\ l.kind = "boolean" \/ (l.delay.t = "number" /\ l.delay.n = 1)},
            disabled : {<< >>}, onClick : {FALSE}, href : {<< >>}, icon : BOOLEAN,
            children : {"twoCN", "threeCN", "latin", "pairCN"},
            autoInsertSpace : InsertSpaceInputs],
   cfg : {c \in RenderCfgs : c.type # "link"}, button : {NoButtonContext},
   ctxDisabled : {FALSE}, ctxInsertSpace : {<< >>, <<FALSE>>}]

SpaceMount == MountWith(SpaceInputs)

SpaceSetProps == SetPropsWith(SpaceInputs)

SpaceNext ==
  SpaceMount \/ SpaceSetProps \/ Commit \/ Effects \/ Tick \/ Fire \/ Unmount

SpaceSpec == Init /\ [][SpaceNext]_vars

\* ------------------------------------------------------ the cleanup, again
\* cleanupTimer called once more on the effect that the unmount cleaned up
CleanupAgain ==
  /\ ~mounted /\ pc = "idle" /\ last.op \in {"Unmount", "CleanupAgain"}
  /\ LET cl == cleanupTimer(timers, delayTimer)
     IN  /\ timers' = cl.timers
         /\ delayTimer' = cl.delayTimer
         /\ last' = [NoOp EXCEPT !.op = "CleanupAgain", !.cleared = cl.cleared]
  /\ UNCHANGED <<mounted, pc, props, ctxDisabled, ctxInsertSpace, cfg, button, merged,
                 innerLoading, hasTwoCNChar, deps, nextTimerId>>

CleanupNext == Next \/ CleanupAgain

CleanupSpec == Init /\ [][CleanupNext]_vars

TypeOK ==
  /\ mounted \in BOOLEAN
  /\ pc \in {"idle", "commit", "effects"}
  /\ props \in PropsInputs
  /\ ctxDisabled \in BOOLEAN
  /\ innerLoading \in BOOLEAN
  /\ hasTwoCNChar \in BOOLEAN
  /\ delayTimer \in 0 .. MaxTimers
  /\ nextTimerId \in 1 .. MaxTimers + 1
  /\ \A t \in timers : t.id \in 1 .. MaxTimers /\ t.remaining \in 0 .. MaxDelay

\* ------------------------------------------------------------------ claims
\* the loading inputs that ask for loading at once: true, or an object whose
\* delay is absent, not a number, or <= 0
ImmediateLoading(l) ==
  \/ l.kind = "boolean" /\ l.val
  \/ l.kind = "object" /\ (l.delay.t # "number" \/ l.delay.n <= 0)

\* the loading inputs that ask for loading after a delay
DelayedLoading(l) == l.kind = "object" /\ l.delay.t = "number" /\ l.delay.n > 0

\* the resolved disabled flag of the committed render
ResolvedDisabled == IF props.disabled = << >> THEN ctxDisabled ELSE props.disabled[1]

\* C1: a click while the loading flag is active or the resolved disabled flag is
\* true calls preventDefault and does not call onClick; any other click calls
\* the caller's onClick once, with the event that was delivered.
C1_ClickGate ==
  last.op = "Click" =>
    IF innerLoading \/ ResolvedDisabled
      THEN last.prevented /\ last.handlerArgs = << >>
      ELSE props.onClick => last.handlerArgs = <<last.event>>

\* a click on a button that is disabled but not loading, with a handler supplied
C1_Witness ==
  /\ last.op = "Click" /\ props.onClick
  /\ ~innerLoading /\ ResolvedDisabled
  /\ last.prevented /\ last.handlerArgs = << >>

\* C2: whenever the loading input asks for loading at once, the loading flag is
\* true in the first render of a mount and whenever an update cycle has settled.
C2_ImmediateActivation ==
  (mounted /\ ImmediateLoading(props.loading) /\ (pc = "idle" \/ last.op = "Mount"))
    => innerLoading

\* a commit that cancelled a pending delayed activation for an immediate one
C2_Witness ==
  /\ mounted /\ pc = "idle" /\ last.op = "Commit" /\ last.cleared # NoTimer
  /\ ImmediateLoading(props.loading) /\ innerLoading

\* C3: once the loading input is one with delay > 0, the loading flag is false
\* for as long as the timer of that input still has time to run.
C3_DelayedFromIdle ==
  (/\ mounted /\ pc = "idle" /\ DelayedLoading(props.loading)
   /\ \E t \in timers : t.id = delayTimer /\ t.remaining > 0)
    => ~innerLoading

\* C4: the only timer whose callback runs is the one the current effect holds in
\* delayTimer: a timer of an earlier loading specification never fires.
C4_NoStaleTimer == [][last'.op = "Fire" => last'.fired = delayTimer]_vars

\* a commit that cleared the previous specification's pending timer and
\* scheduled the timer of the new one
C4_Witness ==
  /\ mounted /\ pc = "idle" /\ last.op = "Commit"
  /\ last.cleared # NoTimer /\ last.scheduled # NoTimer
  /\ timers = {[id |-> last.scheduled,
                remaining |-> getLoadingConfig(props.loading).delay]}

\* C5: while the instance is not mounted no timer is pending, so no callback can
\* run, and no step taken while it stays unmounted changes its loading flag.
C5_TeardownSafety ==
  /\ [](~mounted => timers = {})
  /\ [][(~mounted /\ ~mounted') => innerLoading' = innerLoading]_vars

\* an unmount that found a timer pending and cleared it
C5_Witness ==
  /\ ~mounted /\ last.op = "Unmount" /\ last.cleared # NoTimer /\ timers = {}

\* C6: a delayed specification that stays in place has its timer fire (or
\* cancelled by a change), the firing is a false-to-true transition of the flag,
\* and the flag, once true, stays true while the specification is unchanged.
C6_DelayedLiveness ==
  /\ \A i \in 1 .. MaxTimers :
       (mounted /\ delayTimer = i) ~>
         \/ last.op = "Fire" /\ last.fired = i /\ innerLoading
         \/ last.cleared = i
  /\ [][(mounted /\ last'.op = "Fire" /\ last'.fired = delayTimer)
          => (~innerLoading /\ innerLoading')]_vars
  /\ [][(mounted /\ mounted' /\ innerLoading /\ deps' = deps) => innerLoading']_vars

\* the parts of C6 the code keeps: the timer fires unless a change cancels it,
\* and the flag stays true while the specification is unchanged
C6_FiresAndStays ==
  /\ \A i \in 1 .. MaxTimers :
       (mounted /\ delayTimer = i) ~>
         \/ last.op = "Fire" /\ last.fired = i /\ innerLoading
         \/ last.cleared = i
  /\ [][(mounted /\ mounted' /\ innerLoading /\ deps' = deps) => innerLoading']_vars

\* the legacy table as the specification states it
LegacyPair ==
  [t \in ButtonTypes |->
     CASE t = "default" -> <<"default", "outlined">>
       [] t = "primary" -> <<"primary", "solid">>
       [] t = "dashed"  -> <<"default", "dashed">>
       [] t = "link"    -> <<"link", "link">>
       [] t = "text"    -> <<"default", "text">>]

BothLocal == cfg.color # Undefined /\ cfg.variant # Undefined
BothAmbient == button.present /\ button.color # Undefined /\ button.variant # Undefined

\* C7: with color and variant both supplied the resolved pair is the supplied
\* pair, whatever type, danger and the context are.
C7_LocalPairWins ==
  (merged # << >> /\ BothLocal) => merged = <<cfg.color, cfg.variant>>

\* both supplied, against a type, danger and a full context pair that differ
C7_Witness ==
  /\ merged = <<"blue", "filled">> /\ cfg.color = "blue" /\ cfg.variant = "filled"
  /\ cfg.type = "primary" /\ cfg.danger
  /\ button.present /\ button.color = "default" /\ button.variant = "dashed"

\* C8: without a full local pair, a type of the table resolves to its table
\* entry whatever the context is, and danger replaces the colour only.
C8_LegacyMapping ==
  (merged # << >> /\ ~BothLocal /\ cfg.type \in ButtonTypes) =>
    merged = IF cfg.danger
               THEN <<"danger", LegacyPair[cfg.type][2]>>
               ELSE LegacyPair[cfg.type]

\* type dashed with danger, against a full context pair
C8_Witness ==
  /\ merged = <<"danger", "dashed">> /\ cfg.type = "dashed" /\ cfg.danger
  /\ ~BothLocal /\ BothAmbient

\* C9: danger without a type and with only one of color / variant supplied
\* resolves to (danger, outlined); the lone color or variant is ignored.
C9_DangerAlone ==
  (/\ merged # << >> /\ cfg.danger /\ cfg.type = Undefined
   /\ (cfg.color = Undefined) # (cfg.variant = Undefined))
    => merged = <<"danger", "outlined">>

\* {danger: true, variant: 'text'}
C9_Witness ==
  /\ merged = <<"danger", "outlined">> /\ cfg.danger /\ cfg.type = Undefined
  /\ cfg.color = Undefined /\ cfg.variant = "text"

\* C10: without a full local pair, a type or danger, the resolved pair is the
\* context's pair when the context supplies both, and (default, outlined) otherwise.
C10_AmbientFallback ==
  (merged # << >> /\ ~BothLocal /\ cfg.type = Undefined /\ ~cfg.danger) =>
    merged = IF BothAmbient
               THEN <<button.color, button.variant>>
               ELSE <<"default", "outlined">>

\* a context that supplies a colour alone
C10_Witness ==
  /\ merged = <<"default", "outlined">> /\ ~BothLocal
  /\ cfg.type = Undefined /\ ~cfg.danger
  /\ button.present /\ button.color = "primary" /\ button.variant = Undefined

\* C11: for every input, a type outside the legacy table included, the resolved
\* colour and the resolved variant are both defined.
C11_ResolverTotal ==
  merged # << >> => (merged[1] # Undefined /\ merged[2] # Undefined)

\* the unbordered family of variants
UnborderedFamily == {"link", "text"}

\* C12: every render is wrapped in the feedback effect exactly when the resolved
\* variant is not unbordered, link or not, and the wrapper is disabled exactly
\* when the loading flag is active.
C12_WaveAnyElement ==
  mounted =>
    /\ renderedElement.wave <=> merged[2] \notin UnborderedFamily
    /\ renderedElement.wave => (renderedElement.waveDisabled <=> innerLoading)

\* C12 as amended: an action element is wrapped exactly when the resolved variant
\* is not unbordered, its wrapper disabled exactly when the loading flag is
\* active; a link element is never wrapped.
C12_WaveOnButton ==
  mounted =>
    IF props.href = << >>
      THEN /\ renderedElement.wave <=> merged[2] \notin UnborderedFamily
           /\ renderedElement.wave => (renderedElement.waveDisabled <=> innerLoading)
      ELSE ~renderedElement.wave

\* a loading button of a bordered variant: wrapped, the wrapper disabled
C12_Witness ==
  /\ mounted /\ pc = "idle" /\ props.href = << >> /\ merged[2] = "outlined"
  /\ innerLoading /\ renderedElement.wave /\ renderedElement.waveDisabled

\* C13: the user's icon is shown when supplied and not loading; otherwise the
\* custom loading icon only when the loading flag is active and the loading
\* input carries one; otherwise the default spinner.
C13_IconPriority ==
  mounted =>
    renderedIcon =
      IF props.icon /\ ~innerLoading THEN "icon"
      ELSE IF innerLoading /\ props.loading.kind = "object" /\ props.loading.icon
        THEN "loading.icon"
        ELSE "DefaultLoadingIcon"

\* C14: with an href the element is a link, which when disabled has no href,
\* tabIndex -1, aria-disabled true and suppressed clicks, and otherwise the
\* href and tabIndex 0; without an href it is a button whose disabled attribute
\* is the resolved disabled flag.
C14_LinkOrAction ==
  mounted =>
    IF props.href # << >>
      THEN /\ renderedElement.tag = "a"
           /\ ResolvedDisabled =>
                /\ renderedElement.href = << >>
                /\ renderedElement.tabIndex = <<-1>>
                /\ renderedElement.ariaDisabled = <<TRUE>>
                /\ last.op = "Click" => (last.prevented /\ last.handlerArgs = << >>)
           /\ ~ResolvedDisabled =>
                /\ renderedElement.href = props.href
                /\ renderedElement.tabIndex = <<0>>
      ELSE /\ renderedElement.tag = "button"
           /\ renderedElement.disabled = <<ResolvedDisabled>>

\* a click on a disabled link that has a handler
C14_Witness ==
  /\ mounted /\ props.href = <<"/x">> /\ ResolvedDisabled /\ props.onClick
  /\ ~innerLoading /\ last.op = "Click" /\ last.prevented
  /\ renderedElement.tag = "a" /\ renderedElement.href = << >>

\* the conditions of the text-spacing flag as the specification lists them
SpacingConditions ==
  /\ props.children \in {"zero", "twoCN", "threeCN", "latin"}
  /\ ~props.icon
  /\ merged[2] \notin UnborderedFamily
  /\ IF props.autoInsertSpace # << >> THEN props.autoInsertSpace[1]
     ELSE IF ctxInsertSpace # << >> THEN ctxInsertSpace[1] ELSE TRUE
  /\ props.children \in {"twoCN", "pairCN"}

\* C15: once an update cycle has settled, the two-character flag is emitted
\* exactly when there is one child, no icon, a bordered variant, auto-space
\* enabled and a text of exactly two CJK characters.
C15_SpacingFlag ==
  (mounted /\ pc = "idle") => (renderedTwoChineseChars <=> SpacingConditions)

\* C15 as amended: ... exactly when those conditions hold and the loading flag
\* is not active.
C15_SpacingFlagNotLoading ==
  (mounted /\ pc = "idle") =>
    (renderedTwoChineseChars <=> (SpacingConditions /\ ~innerLoading))

\* the conditions hold and the check has set its flag, but the button is loading
C15_Witness ==
  /\ mounted /\ pc = "idle" /\ SpacingConditions /\ hasTwoCNChar
  /\ innerLoading /\ ~renderedTwoChineseChars

\* C16: the icon-only flag is true exactly when there are no children and the
\* user's icon or the loading icon is shown; never for the number 0.
C16_IconOnly ==
  mounted =>
    /\ renderedIconOnly <=> (props.children = "none" /\ (props.icon \/ innerLoading))
    /\ props.children = "zero" => ~renderedIconOnly

\* no children and no user icon: icon-only once the delayed loading is active
C16_Witness ==
  /\ mounted /\ props.children = "none" /\ ~props.icon /\ last.op = "Fire"
  /\ innerLoading /\ renderedIconOnly

\* C17: at most one delayed-loading timer is pending.
C17_AtMostOneTimer == Cardinality(timers) <= 1

\* twice in a row a pending timer was replaced by the timer of a new input
C17_Witness ==
  /\ mounted /\ last.op = "Commit" /\ last.cleared = 2 /\ last.scheduled = 3
  /\ Cardinality(timers) = 1

\* the timer of the current effect was scheduled and is no longer pending
TimerFired == mounted /\ deps # << >> /\ deps[1].delay > 0 /\ timers = {}

\* C18: the cleanup run a second time, or run after the timer has fired, clears
\* no timer and changes no state.
C18_IdempotentCleanup ==
  /\ [][last'.op = "CleanupAgain" =>
          /\ last'.cleared = NoTimer
          /\ UNCHANGED <<mounted, pc, props, ctxDisabled, ctxInsertSpace, cfg, button,
                         merged, innerLoading, hasTwoCNChar, deps, delayTimer, timers,
                         nextTimerId>>]_vars
  /\ [][(TimerFired /\ ~mounted') =>
          /\ last'.cleared = NoTimer
          /\ UNCHANGED <<timers, delayTimer, innerLoading, hasTwoCNChar>>]_vars

\* the cleanup run again for an instance that was unmounted with a delayed input
C18_Witness ==
  /\ ~mounted /\ last.op = "CleanupAgain" /\ DelayedLoading(props.loading)
  /\ nextTimerId > 1 /\ timers = {}

\* the normalized pair of a loading input
NormalizedPair(l) ==
  [loading |-> ImmediateLoading(l),
   delay |-> IF l.kind = "object" /\ l.delay.t = "number" THEN l.delay.n ELSE 0]

\* C19: a commit of a render whose normalized (delay, loading) pair is that of
\* the effect in place leaves the pending timer, its remaining time and the
\* loading flag as they were.
C19_TimerFrame ==
  [][(/\ mounted /\ pc = "commit" /\ pc' # "commit"
      /\ deps # << >> /\ deps[1] = NormalizedPair(props.loading))
       => UNCHANGED <<timers, delayTimer, innerLoading>>]_vars

\* a re-render with a new loading object of the same delay, after a tick of the
\* pending timer, which is still pending with its remaining time
C19_Witness ==
  /\ mounted /\ pc = "idle" /\ last.op = "Commit"
  /\ last.cleared = NoTimer /\ last.scheduled = NoTimer
  /\ props.loading.kind = "object" /\ props.loading.icon /\ ~innerLoading
  /\ \E t \in timers :
       t.id = delayTimer /\ t.remaining < NormalizedPair(props.loading).delay

\* the loading inputs that ask for no loading: absent or false
NotLoading(l) == l.kind = "undefined" \/ (l.kind = "boolean" /\ ~l.val)

\* C20: in a settled state whose loading input is false or absent the loading
\* flag is false and no timer is pending, so a click is gated by the disabled
\* flag alone.
C20_NoStuckLoading ==
  (mounted /\ pc = "idle" /\ NotLoading(props.loading)) =>
    /\ ~innerLoading
    /\ timers = {}
    /\ last.op = "Click" =>
         /\ last.prevented <=> ResolvedDisabled
         /\ (~ResolvedDisabled /\ props.onClick) => last.handlerArgs = <<last.event>>

\* a change to false that found the delayed timer pending
C20_Witness ==
  /\ mounted /\ pc = "idle" /\ NotLoading(props.loading)
  /\ last.op = "Commit" /\ last.cleared # NoTimer
  /\ ~innerLoading /\ timers = {}

====
